---- MODULE Spec2Model ----
(***************************************************************************)
(* Extraction and ranking pipeline of the HR assistant backend:            *)
(*   backend/main.py             upload_resumes, post_job_description      *)
(*   backend/resume_parser.py    parse_resume, retrieve_chunks             *)
(*   backend/candidate_ranker.py evaluate_candidate, rank_candidates       *)
(* Candidate records are Python dicts: functions from key names to JSON    *)
(* values.  The generative service and the embedding model are external:   *)
(* their answers are inputs drawn from small sets.                         *)
(***************************************************************************)
EXTENDS Integers, Sequences, FiniteSets, TLC

(* ------------------------------ bounds --------------------------------- *)
MaxFiles == 3
MaxCands == 3
MaxChunks == 3
MaxTopK == 4
MaxMembers == 2

(* --------------------------- JSON values -------------------------------- *)
(* A value produced by json.loads, tagged with its Python type.            *)
JNull == [t |-> "null", n |-> 0, s |-> <<>>]
JInt(i) == [t |-> "int", n |-> i, s |-> <<>>]
JStr(x) == [t |-> "str", n |-> 0, s |-> <<x>>]
JList(l) == [t |-> "list", n |-> 0, s |-> l]

(* dict.get(key, default) *)
Get(d, key, default) == IF key \in DOMAIN d THEN d[key] ELSE default

(* ', '.join(v) raises TypeError unless v is iterable (a list of strings   *)
(* or a string).                                                           *)
Joinable(v) == v.t \in {"list", "str"}

(* len(v) raises TypeError for None and for a number. *)
HasLen(v) == v.t \in {"list", "str"}

Min(a, b) == IF a <= b THEN a ELSE b

RECURSIVE Reverse(_)
Reverse(sq) == IF sq = <<>> THEN <<>> ELSE Reverse(Tail(sq)) \o <<Head(sq)>>

Range(sq) == {sq[i] : i \in 1..Len(sq)}

(* ------------------- inputs: extraction responses ----------------------- *)
(* Objects the generative service may return to the extraction prompt.     *)
FullProfile ==
    [name |-> JStr("Ann"), email |-> JStr("ann@example.com"),
     phone |-> JStr("+1"), skills |-> JList(<<"Python", "FastAPI">>),
     experience_years |-> JStr("5"), education |-> JStr("MS"),
     key_achievements |-> JList(<<"Built ML pipeline">>),
     relevant_experience |-> JStr("5 years in AI")]
NullAchievements ==
    [name |-> JStr("Bob"), email |-> JStr("bob@example.com"),
     key_achievements |-> JNull]
ErrorObject == [error |-> JStr("not a resume")]
NullSkills == [name |-> JStr("Cy"), skills |-> JNull]
ManySkills ==
    [name |-> JStr("Dee"),
     skills |-> JList(<<"Python", "SQL", "Go", "Rust", "C", "Java", "Docker",
                        "Linux", "Git", "AWS", "React">>)]
ExtractObjs ==
    {FullProfile, NullAchievements, ErrorObject, NullSkills, ManySkills}

ExtractedFields ==
    {"name", "email", "phone", "skills", "experience_years", "education",
     "key_achievements", "relevant_experience"}
ScoringFields ==
    {"score", "match_percentage", "summary", "strengths", "gaps",
     "recommendation"}
Recommendations == {"strong_fit", "good_fit", "moderate_fit", "weak_fit"}

(* ------------------- inputs: evaluation responses ----------------------- *)
Assessment(sc) ==
    [score |-> JInt(sc), match_percentage |-> JInt(sc),
     summary |-> JStr("overview"), strengths |-> JList(<<"s1">>),
     gaps |-> JList(<<"g1">>), recommendation |-> JStr("good_fit")]
OutOfRange == [score |-> JInt(150)]
NullScore == [score |-> JNull, match_percentage |-> JInt(60)]
Renaming == ("name" :> JStr("Mallory")) @@ Assessment(70)
EvalObjs == {Assessment(90), Assessment(80), OutOfRange, NullScore, Renaming}
(* Ways the try block of evaluate_candidate fails: the call raises, the    *)
(* text has no JSON span, the span does not parse.                         *)
EvalFailures == {"raise", "nojson", "badjson"}

(* candidates handed to rank_candidates by a caller other than the upload  *)
(* handler (the module's own test calls it with a hand-written record)     *)
TestCandidate == FullProfile
DirectCands ==
    {TestCandidate, ("preliminary_score" :> JInt(20)) @@ FullProfile,
     NullAchievements}

(* ------------------------------ state ----------------------------------- *)
VARIABLES
    api_key_set,            \* AI_API_KEY is set in the environment
    job_description_store,  \* main.py global
    candidates_store,       \* main.py global
    pc,                     \* position of the request being served
    caller,                 \* "none", "upload" or "direct"
    nfiles,                 \* number of files of the upload request
    idx,                    \* loop index of upload_resumes (1-based)
    outcome,                \* per processed document: what happened to it
    parsed_candidates,      \* upload_resumes local
    candidate_info,         \* upload_resumes local: last return of parse_resume
    source,                 \* document index of each parsed candidate
    candidates,             \* argument of rank_candidates
    task,                   \* status of each evaluate_candidate task
    results,                \* record returned by each finished task
    overtaken,              \* a task returned before one created earlier
    rank_status,            \* "none", "gathering", "returned", "raised"
    ranked,                 \* value returned by rank_candidates
    order,                  \* input position of each ranked record
    rpc,                    \* position of the retrieve_chunks call
    embeddings,             \* one vector per chunk
    query_emb,              \* vector of the query
    top_k,                  \* argument of retrieve_chunks
    top_idx,                \* chunk indices returned by retrieve_chunks
    ai_text,                \* resp.text, a sequence of characters
    extract_pc,             \* position of the extract_json call
    extract_value,          \* object returned by extract_json
    evaluator_pc,           \* position of the parse in evaluate_candidate
    evaluator_value         \* object parsed by evaluate_candidate

mainVars ==
    <<api_key_set, job_description_store, candidates_store, pc, caller,
      nfiles, idx, outcome, parsed_candidates, candidate_info, source,
      candidates, task, results, overtaken, rank_status, ranked, order>>
retrVars == <<rpc, embeddings, query_emb, top_k, top_idx>>
jsonVars ==
    <<ai_text, extract_pc, extract_value, evaluator_pc, evaluator_value>>
vars == <<mainVars, retrVars, jsonVars>>
rankVars ==
    <<candidates, task, results, overtaken, rank_status, ranked, order>>

(* -------------------------- resume_parser.py ---------------------------- *)
ErrorRecord(reason) == [error |-> JStr(reason)]

(* generate_candidate_info after the service call: extract_json's object,  *)
(* or the error dict of its except clause.                                 *)
GenerateFailed == ErrorRecord("Failed to parse resume")

(* the score without its upper bound: num_skills * 10 *)
PreliminaryScoreUncapped(candidate) ==
    Len(Get(candidate, "skills", JList(<<>>)).s) * 10

(* preliminary score: min(num_skills * 10, 100) *)
PreliminaryScore(candidate) ==
    Min(Len(Get(candidate, "skills", JList(<<>>)).s) * 10, 100)

(* parse_resume from the return of generate_candidate_info to its own      *)
(* return; a TypeError of len() lands in the except clause.                *)
ParseResumeTail(candidate) ==
    IF "error" \in DOMAIN candidate THEN candidate
    ELSE IF ~HasLen(Get(candidate, "skills", JList(<<>>)))
         THEN ErrorRecord("TypeError")
    ELSE ("preliminary_score" :> JInt(PreliminaryScore(candidate))) @@ candidate

(* ------------------------- candidate_ranker.py -------------------------- *)
(* The f-string summary: the two joins are the only parts that can raise.  *)
SummaryBuilds(candidate) ==
    /\ Joinable(Get(candidate, "skills", JList(<<>>)))
    /\ Joinable(Get(candidate, "key_achievements", JList(<<>>)))

(* What evaluate_candidate runs before its try block: get_client() and the *)
(* candidate summary.  FALSE means the coroutine raises.                   *)
Preamble(key_set, candidate) == key_set /\ SummaryBuilds(candidate)

(* {**candidate, **evaluation} *)
Enhanced(candidate, evaluation) == evaluation @@ candidate

(* the except clause with a constant score *)
FallbackFixedScore(candidate) ==
    [score |-> JInt(50),
     match_percentage |-> JInt(50),
     summary |-> JStr("Unable to generate detailed assessment"),
     strengths |-> JList(<<"Evaluation pending">>),
     gaps |-> JList(<<>>),
     recommendation |-> JStr("moderate_fit")] @@ candidate

(* the dict of the except clause *)
Fallback(candidate) ==
    [score |-> Get(candidate, "preliminary_score", JInt(50)),
     match_percentage |-> JInt(50),
     summary |-> JStr("Unable to generate detailed assessment"),
     strengths |-> JList(<<"Evaluation pending">>),
     gaps |-> JList(<<>>),
     recommendation |-> JStr("moderate_fit")] @@ candidate

(* key=lambda x: x.get('score', 0) *)
SortKey(x) == Get(x, "score", JInt(0))

(* Comparing None with anything raises TypeError; every sort of two or     *)
(* more keys compares each key at least once.                              *)
SortRaises(evaluated) ==
    /\ Len(evaluated) >= 2
    /\ \E i \in 1..Len(evaluated) : SortKey(evaluated[i]).t # "int"

(* One insertion of a stable ascending sort: e goes after every element    *)
(* whose key is not greater.                                               *)
RECURSIVE InsertAsc(_, _, _)
InsertAsc(sorted, e, key) ==
    IF sorted = <<>> THEN <<e>>
    ELSE IF key[Head(sorted)] <= key[e]
         THEN <<Head(sorted)>> \o InsertAsc(Tail(sorted), e, key)
    ELSE <<e>> \o sorted

RECURSIVE SortAsc(_, _)
SortAsc(sq, key) ==
    IF sq = <<>> THEN <<>>
    ELSE InsertAsc(SortAsc(SubSeq(sq, 1, Len(sq) - 1), key), sq[Len(sq)], key)

(* an ascending sort followed by a reversal: sorted(...)[::-1] *)
SortedOrderReversed(evaluated) ==
    LET key == [i \in 1..Len(evaluated) |-> SortKey(evaluated[i]).n]
        positions == [i \in 1..Len(evaluated) |-> i]
    IN  Reverse(SortAsc(positions, key))

(* sorted(..., reverse=True): list.sort reverses the list, sorts it stably *)
(* in ascending order and reverses the result.  Works on input positions.  *)
SortedOrder(evaluated) ==
    LET key == [i \in 1..Len(evaluated) |-> SortKey(evaluated[i]).n]
        positions == [i \in 1..Len(evaluated) |-> i]
    IN  Reverse(SortAsc(Reverse(positions), key))

(* ------------------------------- main.py -------------------------------- *)
(* the filter of line 89 left out *)
AcceptedAlways(info) == TRUE

(* line 89: if "error" not in candidate_info *)
Accepted(info) == "error" \notin DOMAIN info

(* lines 105-108: candidate['id'] = idx; candidates_store.append *)
WithIds(ranked_candidates) ==
    [i \in 1..Len(ranked_candidates) |->
        ("id" :> JInt(i - 1)) @@ ranked_candidates[i]]

TaskDone == {"merged", "fallback"}

(* records collected in the order in which the tasks finish *)
StoreInCompletionOrder(collected, i, record) ==
    LET finished == {j \in DOMAIN task : task[j] \in TaskDone}
    IN  [collected EXCEPT ![Cardinality(finished) + 1] = record]

(* gather collects by position of the awaitable: the record returned by   *)
(* the i-th task is the i-th element of its result.                        *)
Store(collected, i, record) == [collected EXCEPT ![i] = record]

(* the i-th task returns: does it do so while a task created before it is  *)
(* still waiting for the service, now or at an earlier return?             *)
Overtakes(i) ==
    overtaken \/ \E j \in 1..(i - 1) : task[j] = "awaiting"

(* rank_candidates up to the await of gather: one task per candidate *)
StartRank(cands) ==
    /\ candidates' = cands
    /\ task' = [i \in 1..Len(cands) |-> "pending"]
    /\ results' = cands
    /\ overtaken' = FALSE
    /\ rank_status' = "gathering"
    /\ ranked' = <<>>
    /\ order' = <<>>

(* an embedding failure that escapes both except clauses and ends the     *)
(* request                                                                 *)
AdvanceOrAbort(label, cands, srcs) ==
    /\ outcome' = Append(outcome, label)
    /\ parsed_candidates' = cands
    /\ source' = srcs
    /\ IF label = "model_unavailable"
       THEN idx' = idx /\ pc' = "http_500" /\ UNCHANGED rankVars
       ELSE IF idx < nfiles
       THEN /\ idx' = idx + 1
            /\ pc' = "loop"
            /\ UNCHANGED rankVars
       ELSE /\ idx' = idx
            /\ IF cands = <<>>
               THEN pc' = "http_400" /\ UNCHANGED rankVars
               ELSE pc' = "ranking" /\ StartRank(cands)

(* end of one iteration of the loop of upload_resumes: next file, or the   *)
(* code after the loop up to the await of rank_candidates                  *)
Advance(label, cands, srcs) ==
    /\ outcome' = Append(outcome, label)
    /\ parsed_candidates' = cands
    /\ source' = srcs
    /\ IF idx < nfiles
       THEN /\ idx' = idx + 1
            /\ pc' = "loop"
            /\ UNCHANGED rankVars
       ELSE /\ idx' = idx
            /\ IF cands = <<>>
               THEN pc' = "http_400" /\ UNCHANGED rankVars
               ELSE pc' = "ranking" /\ StartRank(cands)

(* lines 84-90: candidate_info returned by parse_resume, filtered *)
AfterParse(label, info) ==
    /\ candidate_info' = info
    /\ IF Accepted(info)
       THEN Advance(label, Append(parsed_candidates, info),
                    Append(source, idx))
       ELSE Advance(label, parsed_candidates, source)

(* a local that has not been assigned yet *)
Unbound == [unbound |-> JNull]

(* no call of extract_json or of the evaluator's parse is under way *)
JsonIdle ==
    /\ ai_text = <<>>
    /\ extract_pc = "off"
    /\ extract_value = <<>>
    /\ evaluator_pc = "off"
    /\ evaluator_value = <<>>

(* no upload or ranking is under way *)
MainIdle ==
    /\ job_description_store = ""
    /\ candidates_store = <<>>
    /\ pc = "idle"
    /\ caller = "none"
    /\ nfiles = 0
    /\ idx = 0
    /\ outcome = <<>>
    /\ parsed_candidates = <<>>
    /\ candidate_info = Unbound
    /\ source = <<>>
    /\ candidates = <<>>
    /\ task = <<>>
    /\ results = <<>>
    /\ overtaken = FALSE
    /\ rank_status = "none"
    /\ ranked = <<>>
    /\ order = <<>>

(* no call of retrieve_chunks is under way *)
RetrieveIdle ==
    /\ rpc = "off"
    /\ embeddings = <<>>
    /\ query_emb = <<0, 0>>
    /\ top_k = 1
    /\ top_idx = <<>>

Init ==
    /\ api_key_set \in BOOLEAN
    /\ MainIdle
    /\ RetrieveIdle
    /\ JsonIdle

(* POST /job_description/ *)
post_job_description ==
    /\ pc = "idle"
    /\ \E jd \in {"", "Senior Python Developer"} :
          /\ jd # job_description_store
          /\ job_description_store' = jd
    /\ UNCHANGED <<api_key_set, candidates_store, pc, caller, nfiles, idx,
                   outcome, parsed_candidates, candidate_info, source,
                   rankVars, retrVars, jsonVars>>

(* POST /upload_resumes/ up to the loop *)
upload_resumes ==
    /\ pc = "idle"
    /\ caller' = "upload"
    /\ IF job_description_store = ""
       THEN pc' = "http_400" /\ UNCHANGED <<nfiles, idx>>
       ELSE /\ pc' = "loop"
            /\ \E n \in 1..MaxFiles : nfiles' = n
            /\ idx' = 1
    /\ UNCHANGED <<api_key_set, job_description_store, candidates_store,
                   outcome, parsed_candidates, candidate_info, source,
                   rankVars, retrVars, jsonVars>>

(* One iteration of the loop up to the service call of                     *)
(* generate_candidate_info: filename check, temp file, load_pdf,           *)
(* embed_chunks, retrieve_chunks, get_client.                              *)
(* loaded is FALSE when load_pdf raises or yields no chunk (the similarity *)
(* of an empty array raises); both end in parse_resume's except clause.    *)
ProcessFile ==
    /\ pc = "loop"
    /\ \E is_pdf, written, loaded, embedded \in BOOLEAN :
          IF ~is_pdf
          THEN /\ Advance("skipped", parsed_candidates, source)
               /\ UNCHANGED candidate_info
          ELSE IF ~written
               THEN /\ Advance("io_error", parsed_candidates, source)
                    /\ UNCHANGED candidate_info
          ELSE IF ~loaded THEN AfterParse("load_failed", ErrorRecord("load"))
          ELSE IF ~embedded
               THEN AfterParse("model_unavailable", ErrorRecord("encode"))
          ELSE IF ~api_key_set
               THEN AfterParse("extraction_failed",
                               ErrorRecord("AI_API_KEY not set"))
          ELSE /\ pc' = "extracting"
               /\ UNCHANGED <<idx, outcome, parsed_candidates,
                              candidate_info, source, rankVars>>
    /\ UNCHANGED <<api_key_set, job_description_store, candidates_store,
                   caller, nfiles, retrVars, jsonVars>>

(* The service answers the extraction prompt; rest of the iteration. *)
GenerateReply ==
    /\ pc = "extracting"
    /\ \E info \in {GenerateFailed} \cup ExtractObjs :
          LET returned == ParseResumeTail(info)
          IN  AfterParse(IF "error" \in DOMAIN returned
                         THEN "extraction_failed" ELSE "ok",
                         returned)
    /\ UNCHANGED <<api_key_set, job_description_store, candidates_store,
                   caller, nfiles, retrVars, jsonVars>>

(* A caller other than upload_resumes calls rank_candidates. *)
RECURSIVE SeqsUpTo(_, _)
SeqsUpTo(S, n) ==
    IF n = 0 THEN {<<>>}
    ELSE LET shorter == SeqsUpTo(S, n - 1)
         IN  shorter \cup {Append(sq, e) : sq \in shorter, e \in S}

(* rank_candidates without the test of line 98: gather is called with no  *)
(* awaitable                                                               *)
rank_candidates_ungated ==
    /\ pc = "idle"
    /\ caller' = "direct"
    /\ \E cands \in SeqsUpTo(DirectCands, MaxCands) :
          pc' = "ranking" /\ StartRank(cands)
    /\ UNCHANGED <<api_key_set, job_description_store, candidates_store,
                   nfiles, idx, outcome, parsed_candidates, candidate_info,
                   source, retrVars, jsonVars>>

rank_candidates ==
    /\ pc = "idle"
    /\ caller' = "direct"
    /\ \E cands \in SeqsUpTo(DirectCands, MaxCands) :
          IF cands = <<>>
          THEN /\ pc' = "direct_done"
               /\ rank_status' = "returned"
               /\ ranked' = <<>>
               /\ UNCHANGED <<candidates, task, results, overtaken, order>>
          ELSE pc' = "ranking" /\ StartRank(cands)
    /\ UNCHANGED <<api_key_set, job_description_store, candidates_store,
                   nfiles, idx, outcome, parsed_candidates, candidate_info,
                   source, retrVars, jsonVars>>

(* First step of the i-th evaluate_candidate task: everything before the   *)
(* try block, then the service call is handed to a thread.  The event loop *)
(* runs the first steps in creation order.                                 *)
TaskStart(i) ==
    /\ task[i] = "pending"
    /\ \A j \in 1..(i - 1) : task[j] # "pending"
    /\ task' = [task EXCEPT ![i] =
                   IF Preamble(api_key_set, candidates[i])
                   THEN "awaiting" ELSE "raised"]
    /\ UNCHANGED <<api_key_set, job_description_store, candidates_store, pc,
                   caller, nfiles, idx, outcome, parsed_candidates,
                   candidate_info, source, candidates, results, overtaken,
                   rank_status, ranked, order, retrVars, jsonVars>>

(* The try block fails: the except clause returns the fallback record. *)
TaskFails(i) ==
    /\ task[i] = "awaiting"
    /\ \E failure \in EvalFailures :
          /\ results' = Store(results, i, Fallback(candidates[i]))
          /\ overtaken' = Overtakes(i)
          /\ task' = [task EXCEPT ![i] = "fallback"]
    /\ UNCHANGED <<api_key_set, job_description_store, candidates_store, pc,
                   caller, nfiles, idx, outcome, parsed_candidates,
                   candidate_info, source, candidates, rank_status, ranked,
                   order, retrVars, jsonVars>>

(* The response parses: the merged record is returned. *)
TaskMerges(i) ==
    /\ task[i] = "awaiting"
    /\ \E evaluation \in EvalObjs :
          /\ results' = Store(results, i,
                               Enhanced(candidates[i], evaluation))
          /\ overtaken' = Overtakes(i)
          /\ task' = [task EXCEPT ![i] = "merged"]
    /\ UNCHANGED <<api_key_set, job_description_store, candidates_store, pc,
                   caller, nfiles, idx, outcome, parsed_candidates,
                   candidate_info, source, candidates, rank_status, ranked,
                   order, retrVars, jsonVars>>

(* gather without return_exceptions: the first exception of a task is      *)
(* raised in rank_candidates, after the first step of every task; the      *)
(* other tasks are not cancelled.  Nobody catches it: HTTP 500.            *)
GatherRaises ==
    /\ rank_status = "gathering"
    /\ \A i \in DOMAIN task : task[i] # "pending"
    /\ \E i \in DOMAIN task : task[i] = "raised"
    /\ rank_status' = "raised"
    /\ pc' = IF caller = "upload" THEN "http_500" ELSE "direct_done"
    /\ UNCHANGED <<api_key_set, job_description_store, candidates_store,
                   caller, nfiles, idx, outcome, parsed_candidates,
                   candidate_info, source, candidates, task, results,
                   overtaken, ranked, order, retrVars, jsonVars>>

(* Every task returned: gather returns the records in input order,         *)
(* rank_candidates sorts them and returns; upload_resumes stores them.     *)
GatherReturns ==
    /\ rank_status = "gathering"
    /\ \A i \in DOMAIN task : task[i] \in TaskDone
    /\ LET evaluated_candidates == results
       IN  IF SortRaises(evaluated_candidates)
           THEN /\ rank_status' = "raised"
                /\ pc' = IF caller = "upload" THEN "http_500"
                         ELSE "direct_done"
                /\ UNCHANGED <<ranked, order, candidates_store>>
           ELSE LET sorted_order == SortedOrder(evaluated_candidates)
                    ranked_candidates ==
                        [i \in 1..Len(sorted_order) |->
                            evaluated_candidates[sorted_order[i]]]
                IN  /\ rank_status' = "returned"
                    /\ order' = sorted_order
                    /\ ranked' = ranked_candidates
                    /\ IF caller = "upload"
                       THEN /\ candidates_store' = WithIds(ranked_candidates)
                            /\ pc' = "http_200"
                       ELSE /\ pc' = "direct_done"
                            /\ UNCHANGED candidates_store
    /\ UNCHANGED <<api_key_set, job_description_store, caller, nfiles, idx,
                   outcome, parsed_candidates, candidate_info, source,
                   candidates, task, results, overtaken, retrVars, jsonVars>>

Next ==
    \/ post_job_description
    \/ upload_resumes
    \/ ProcessFile
    \/ GenerateReply
    \/ rank_candidates
    \/ \E i \in DOMAIN task : TaskStart(i)
    \/ \E i \in DOMAIN task : TaskFails(i)
    \/ \E i \in DOMAIN task : TaskMerges(i)
    \/ GatherRaises
    \/ GatherReturns

Spec == Init /\ [][Next]_vars

(* ------------------- resume_parser.py: retrieve_chunks ------------------ *)
(* Embedding vectors the model may produce (two dimensions suffice to      *)
(* give equal, opposite, orthogonal and zero vectors).                     *)
Vectors == {<<1, 0>>, <<0, 1>>, <<1, 1>>, <<-1, 0>>, <<0, 0>>}

Dot(u, v) == u[1] * v[1] + u[2] * v[2]

(* sklearn normalises each vector; a zero vector keeps norm 1. *)
SquaredNorm(v) == IF Dot(v, v) = 0 THEN 1 ELSE Dot(v, v)

Sign(x) == IF x > 0 THEN 1 ELSE IF x < 0 THEN -1 ELSE 0

(* cosine_similarity(q, u) <= cosine_similarity(q, v), compared exactly:   *)
(* x |-> sign(x) * x^2 is increasing and the norm of q is a common factor. *)
SimLE(q, u, v) ==
    Sign(Dot(q, u)) * Dot(q, u) * Dot(q, u) * SquaredNorm(v)
        <= Sign(Dot(q, v)) * Dot(q, v) * Dot(q, v) * SquaredNorm(u)

(* sim.argsort(): an ascending order of the indices.  The default kind is  *)
(* an unstable quicksort, so equal similarities come in any order.         *)
Argsorts(q, embs) ==
    {p \in Permutations(1..Len(embs)) :
        \A i, j \in 1..Len(embs) :
            i < j => SimLE(q, embs[p[i]], embs[p[j]])}

(* a[:k] *)
Prefix(a, k) == IF k >= Len(a) THEN a ELSE SubSeq(a, 1, k)

(* a[-k:] *)
Suffix(a, k) ==
    IF k = 0 \/ k >= Len(a) THEN a ELSE SubSeq(a, Len(a) - k + 1, Len(a))

(* sim.argsort()[-top_k:][::-1] *)
TopIdx(argsort, k) == Reverse(Suffix(argsort, k))

SeqsOfLen(S, n) == {sq \in SeqsUpTo(S, n) : Len(sq) = n}

InitRetrieve ==
    /\ api_key_set = TRUE
    /\ MainIdle
    /\ JsonIdle
    /\ rpc = "called"
    /\ \E n \in 1..MaxChunks : embeddings \in SeqsOfLen(Vectors, n)
    /\ query_emb \in Vectors
    /\ top_k \in 1..MaxTopK
    /\ top_idx = <<>>

retrieve_chunks ==
    /\ rpc = "called"
    /\ \E argsort \in Argsorts(query_emb, embeddings) :
          top_idx' = TopIdx(argsort, top_k)
    /\ rpc' = "returned"
    /\ UNCHANGED <<mainVars, jsonVars, embeddings, query_emb, top_k>>

NextRetrieve == retrieve_chunks

SpecRetrieve == InitRetrieve /\ [][NextRetrieve]_vars

(* ---------------- extract_json and the evaluator's parse ---------------- *)
(* A text is a sequence of one-character strings; the backquote, which a   *)
(* string of this language cannot hold, is written "bq".                   *)
Q == "\""
BQ == "bq"
At(text, i) == IF i \in 1..Len(text) THEN text[i] ELSE "EOF"

(* does pattern occur in text at position i *)
Occurs(pattern, text, i) ==
    /\ i >= 1
    /\ i + Len(pattern) - 1 <= Len(text)
    /\ \A d \in 1..Len(pattern) : text[i + d - 1] = pattern[d]

(* \s* from position i: the position of the first non-blank character *)
RECURSIVE SkipWs(_, _)
SkipWs(text, i) == IF At(text, i) = " " THEN SkipWs(text, i + 1) ELSE i

FenceOpen == <<BQ, BQ, BQ, "j", "s", "o", "n">>
FenceClose == <<BQ, BQ, BQ>>
NoSpan == [found |-> FALSE, first |-> 0, last |-> 0]

(* the match of group 1 of the fenced pattern of line 49 that starts with  *)
(* the fence at position p: the brace after the blanks, and the nearest    *)
(* closing brace that blanks and a fence follow                            *)
FencedAt(text, p) ==
    LET first == SkipWs(text, p + Len(FenceOpen))
        ends == {b \in (first + 1)..Len(text) :
                    /\ text[b] = "}"
                    /\ Occurs(FenceClose, text, SkipWs(text, b + 1))}
    IN  IF Occurs(FenceOpen, text, p) /\ At(text, first) = "{" /\ ends # {}
        THEN [found |-> TRUE, first |-> first,
              last |-> CHOOSE b \in ends : \A c \in ends : b <= c]
        ELSE NoSpan

(* re.search of the fenced pattern with re.DOTALL: the leftmost fence      *)
(* that gives a match                                                      *)
FencedSpan(text) ==
    LET starts == {p \in 1..Len(text) : FencedAt(text, p).found}
    IN  IF starts = {} THEN NoSpan
        ELSE FencedAt(text, CHOOSE p \in starts : \A r \in starts : p <= r)

(* re.search of the brace pattern of line 53: first { to last }            *)
BraceSpan(text) ==
    LET opens == {i \in 1..Len(text) : text[i] = "{"}
        closes == {i \in 1..Len(text) : text[i] = "}"}
        first == CHOOSE a \in opens : \A c \in opens : a <= c
        last == CHOOSE b \in closes : \A c \in closes : b >= c
    IN  IF opens # {} /\ closes # {} /\ first < last
        THEN [found |-> TRUE, first |-> first, last |-> last]
        ELSE NoSpan

(* lines 49-56 (and lines 67-74 of candidate_ranker.py): json_str *)
JsonSpan(text) ==
    IF FencedSpan(text).found THEN FencedSpan(text) ELSE BraceSpan(text)

(* re.sub of lines 59-60 for one closer: each comma that blanks and the    *)
(* closer follow is dropped with the blanks, left to right                 *)
RECURSIVE StripBefore(_, _)
StripBefore(closer, str) ==
    IF str = <<>> THEN <<>>
    ELSE IF Head(str) = "," /\ At(str, SkipWs(str, 2)) = closer
         THEN <<closer>>
              \o StripBefore(closer, SubSeq(str, SkipWs(str, 2) + 1, Len(str)))
    ELSE <<Head(str)>> \o StripBefore(closer, Tail(str))

(* lines 59-60 *)
Cleaned(json_str) == StripBefore("]", StripBefore("}", json_str))

(* json.loads on the characters used here: objects, arrays, strings        *)
(* without escapes, numbers made of the digit 1, blanks between tokens.    *)
(* The value is returned in canonical text (no blanks, for a repeated key  *)
(* the last member only).  With lenient = TRUE one comma is also accepted  *)
(* between the last member or element and the closer, which json.loads     *)
(* rejects.                                                                *)
ParseFail == [ok |-> FALSE, next |-> 0, val |-> <<>>]
ParseOk(next, val) == [ok |-> TRUE, next |-> next, val |-> val]

RECURSIVE FindQuote(_, _)
FindQuote(text, i) ==
    IF i > Len(text) THEN 0
    ELSE IF text[i] = Q THEN i ELSE FindQuote(text, i + 1)

ParseString(text, i) ==
    LET close == FindQuote(text, i + 1)
    IN  IF At(text, i) = Q /\ close # 0
        THEN ParseOk(close + 1, SubSeq(text, i, close))
        ELSE ParseFail

RECURSIVE DigitsEnd(_, _)
DigitsEnd(text, i) == IF At(text, i) = "1" THEN DigitsEnd(text, i + 1) ELSE i

RECURSIVE Members(_)
Members(pairs) ==
    IF pairs = <<>> THEN <<>>
    ELSE LET rest == Tail(pairs)
             repeated == \E j \in 1..Len(rest) : rest[j][1] = Head(pairs)[1]
         IN  IF repeated THEN Members(rest)
             ELSE Head(pairs)[1] \o <<":">> \o Head(pairs)[2]
                  \o (IF Members(rest) = <<>> THEN <<>> ELSE <<",">>)
                  \o Members(rest)

RECURSIVE ParseValue(_, _, _)
RECURSIVE ParseElements(_, _, _, _)
RECURSIVE ParseMembers(_, _, _, _)

ParseValue(text, i, lenient) ==
    LET c == At(text, i)
        inner == SkipWs(text, i + 1)
    IN  IF c = Q THEN ParseString(text, i)
        ELSE IF c = "1"
             THEN ParseOk(DigitsEnd(text, i),
                          SubSeq(text, i, DigitsEnd(text, i) - 1))
        ELSE IF c = "["
             THEN IF At(text, inner) = "]" THEN ParseOk(inner + 1, <<"[", "]">>)
                  ELSE ParseElements(text, inner, <<"[">>, lenient)
        ELSE IF c = "{"
             THEN IF At(text, inner) = "}" THEN ParseOk(inner + 1, <<"{", "}">>)
                  ELSE ParseMembers(text, inner, <<>>, lenient)
        ELSE ParseFail

ParseElements(text, i, acc, lenient) ==
    LET element == ParseValue(text, i, lenient)
        after == SkipWs(text, element.next)
        following == SkipWs(text, after + 1)
    IN  IF ~element.ok THEN ParseFail
        ELSE IF At(text, after) = "]"
             THEN ParseOk(after + 1, acc \o element.val \o <<"]">>)
        ELSE IF At(text, after) # "," THEN ParseFail
        ELSE IF lenient /\ At(text, following) = "]"
             THEN ParseOk(following + 1, acc \o element.val \o <<"]">>)
        ELSE ParseElements(text, following, acc \o element.val \o <<",">>,
                           lenient)

ParseMembers(text, i, acc, lenient) ==
    LET key == ParseString(text, i)
        colon == SkipWs(text, key.next)
        value == ParseValue(text, SkipWs(text, colon + 1), lenient)
        after == SkipWs(text, value.next)
        following == SkipWs(text, after + 1)
        pairs == Append(acc, <<key.val, value.val>>)
        object == <<"{">> \o Members(pairs) \o <<"}">>
    IN  IF ~key.ok \/ At(text, colon) # ":" THEN ParseFail
        ELSE IF ~value.ok THEN ParseFail
        ELSE IF At(text, after) = "}" THEN ParseOk(after + 1, object)
        ELSE IF At(text, after) # "," THEN ParseFail
        ELSE IF lenient /\ At(text, following) = "}"
             THEN ParseOk(following + 1, object)
        ELSE ParseMembers(text, following, pairs, lenient)

(* the whole string must be one value between blanks *)
Loads(str, lenient) ==
    LET value == ParseValue(str, SkipWs(str, 1), lenient)
    IN  IF value.ok /\ SkipWs(str, value.next) = Len(str) + 1
        THEN value ELSE ParseFail

SpanText(text, span) == SubSeq(text, span.first, span.last)

(* extract_json(text): ParseFail stands for the ValueError it raises *)
ExtractJson(text) ==
    IF ~JsonSpan(text).found THEN ParseFail
    ELSE Loads(Cleaned(SpanText(text, JsonSpan(text))), FALSE)

(* candidate_ranker.py lines 63-76: the same search, json.loads on the     *)
(* span as found                                                           *)
EvaluatorJson(text) ==
    IF ~JsonSpan(text).found THEN ParseFail
    ELSE Loads(SpanText(text, JsonSpan(text)), FALSE)

(* Response texts: an object of up to MaxMembers members, possibly with a  *)
(* comma (and a blank) before its closing brace, alone, inside prose,      *)
(* inside a json fence, repeated, or cut short.                            *)
Keys == {<<Q, "k", Q, ":">>, <<Q, "j", Q, ":">>}
Values ==
    {<<"1">>, <<"[", "1", "]">>, <<"[", "1", ",", "]">>, <<Q, "x", Q>>,
     <<Q, ",", "}", Q>>, <<"{", "}">>}
MemberTexts == {key \o value : key \in Keys, value \in Values}

RECURSIVE Bodies(_)
Bodies(n) ==
    IF n = 0 THEN {<<>>}
    ELSE Bodies(n - 1)
         \cup {(IF body = <<>> THEN <<>> ELSE body \o <<",">>) \o member :
                  body \in Bodies(n - 1), member \in MemberTexts}

Trailers == {<<>>, <<",">>, <<",", " ">>}
Objects ==
    {<<"{">> \o body \o trailer \o <<"}">> :
        body \in Bodies(MaxMembers), trailer \in Trailers}

Wrapped(object) ==
    {object,
     <<"x", " ">> \o object \o <<" ", "x">>,
     FenceOpen \o <<" ">> \o object \o <<" ">> \o FenceClose,
     <<"{", "x", "}", " ">> \o FenceOpen \o object \o FenceClose \o <<"x">>,
     object \o <<" ">> \o object,
     FenceOpen \o object,
     SubSeq(object, 1, Len(object) - 1),
     <<"x">>}
Texts == UNION {Wrapped(object) : object \in Objects}

InitJson ==
    /\ api_key_set = TRUE
    /\ MainIdle
    /\ RetrieveIdle
    /\ ai_text \in Texts
    /\ extract_pc = "called"
    /\ extract_value = <<>>
    /\ evaluator_pc = "called"
    /\ evaluator_value = <<>>

(* resume_parser.extract_json(ai_text) *)
extract_json ==
    /\ extract_pc = "called"
    /\ extract_pc' = IF ExtractJson(ai_text).ok THEN "returned" ELSE "raised"
    /\ extract_value' = ExtractJson(ai_text).val
    /\ UNCHANGED <<mainVars, retrVars, ai_text, evaluator_pc,
                   evaluator_value>>

(* the JSON extraction inside the try block of evaluate_candidate *)
evaluator_parse ==
    /\ evaluator_pc = "called"
    /\ evaluator_pc' =
          IF EvaluatorJson(ai_text).ok THEN "returned" ELSE "raised"
    /\ evaluator_value' = EvaluatorJson(ai_text).val
    /\ UNCHANGED <<mainVars, retrVars, ai_text, extract_pc, extract_value>>

NextJson == extract_json \/ evaluator_parse

SpecJson == InitJson /\ [][NextJson]_vars

(* ------------------------------ properties ------------------------------ *)
Finished == rank_status \in {"returned", "raised"}

(* C1: evaluate_candidate never propagates an error: whatever fails (the   *)
(* client cannot be created, the summary cannot be built, the call raises, *)
(* the response does not parse) the coroutine returns a record, so no task *)
(* of rank_candidates' gather ever ends with an exception.                 *)
C1_NeverRaises == \A i \in DOMAIN task : task[i] # "raised"

(* C2: whenever a call of rank_candidates is over, it has returned a       *)
(* sequence with exactly as many records as its input, for every           *)
(* combination of evaluation successes and failures.                       *)
C2_SameLength ==
    Finished => rank_status = "returned" /\ Len(ranked) = Len(candidates)

(* C3: the sequence returned by rank_candidates is a permutation of the    *)
(* evaluated records in non-increasing score order, and records of equal   *)
(* score keep the relative order of the input.                             *)
C3_SortedStable ==
    rank_status = "returned" =>
        /\ Len(ranked) = Len(results)
        /\ Len(order) = Len(results)
        /\ Range(order) = 1..Len(results)
        /\ \A i \in 1..Len(ranked) : ranked[i] = results[order[i]]
        /\ \A i, j \in 1..Len(ranked) :
              i < j =>
                 /\ SortKey(ranked[i]).n >= SortKey(ranked[j]).n
                 /\ SortKey(ranked[i]).n = SortKey(ranked[j]).n
                       => order[i] < order[j]

(* A = 80, B = 80, C = 90 in input order comes back as [C, A, B]. *)
C3_Witness ==
    /\ rank_status = "returned"
    /\ Len(results) = 3
    /\ results[1].score = JInt(80)
    /\ results[2].score = JInt(80)
    /\ results[3].score = JInt(90)
    /\ order = <<3, 1, 2>>

(* C4: a record returned through the except clause of evaluate_candidate   *)
(* has recommendation moderate_fit, match_percentage 50, the fixed         *)
(* summary, strengths and gaps, and as score the candidate's               *)
(* preliminary_score if it has one, else 50.                               *)
C4_FallbackRecord ==
    \A i \in DOMAIN task :
        task[i] = "fallback" =>
            /\ ScoringFields \subseteq DOMAIN results[i]
            /\ results[i].recommendation = JStr("moderate_fit")
            /\ results[i].match_percentage = JInt(50)
            /\ results[i].summary
                  = JStr("Unable to generate detailed assessment")
            /\ results[i].strengths = JList(<<"Evaluation pending">>)
            /\ results[i].gaps = JList(<<>>)
            /\ results[i].score =
                  IF "preliminary_score" \in DOMAIN candidates[i]
                  THEN candidates[i].preliminary_score ELSE JInt(50)

(* Two failed evaluations in one run, one candidate with a preliminary     *)
(* score other than 50 and one without any.                                *)
C4_Witness ==
    \E i, j \in DOMAIN task :
        /\ task[i] = "fallback" /\ task[j] = "fallback"
        /\ "preliminary_score" \notin DOMAIN candidates[i]
        /\ "preliminary_score" \in DOMAIN candidates[j]
        /\ candidates[j].preliminary_score # JInt(50)

(* C5: every extracted field of a candidate is present with the same value *)
(* in the record evaluate_candidate returns for it, for every response of  *)
(* the generative service.                                                 *)
C5_ExtractedFieldsKept ==
    \A i \in DOMAIN task :
        task[i] \in TaskDone =>
            \A f \in ExtractedFields \cap DOMAIN candidates[i] :
                f \in DOMAIN results[i] /\ results[i][f] = candidates[i][f]

(* C6: every record returned by evaluate_candidate has all six scoring     *)
(* fields, none null, score and match_percentage integers in 0..100 and    *)
(* recommendation one of the four fits.                                    *)
Percentage(v) == v.t = "int" /\ v.n \in 0..100
C6_FullyPopulated ==
    \A i \in DOMAIN task :
        task[i] \in TaskDone =>
            /\ ScoringFields \subseteq DOMAIN results[i]
            /\ \A f \in ScoringFields : results[i][f].t # "null"
            /\ Percentage(results[i].score)
            /\ Percentage(results[i].match_percentage)
            /\ results[i].recommendation.t = "str"
            /\ Range(results[i].recommendation.s) \subseteq Recommendations

(* C7: in an upload, a document whose extraction gave an ErrorRecord is    *)
(* not among the candidates passed to rank_candidates, nor in the ranked   *)
(* output, nor in candidates_store; no record with an "error" key is       *)
(* passed on.                                                              *)
Failed(d) == outcome[d] # "ok"
C7_ErrorRecordsExcluded ==
    caller = "upload" =>
        /\ Len(source) = Len(parsed_candidates)
        /\ \A i \in 1..Len(source) :
              source[i] \in 1..Len(outcome) /\ ~Failed(source[i])
        /\ \A i \in 1..Len(parsed_candidates) :
              "error" \notin DOMAIN parsed_candidates[i]
        /\ candidates \in {<<>>, parsed_candidates}
        /\ \A i \in 1..Len(ranked) :
              ~Failed(source[order[i]]) /\ "error" \notin DOMAIN ranked[i]
        /\ \A i \in 1..Len(candidates_store) :
              /\ ~Failed(source[order[i]])
              /\ "error" \notin DOMAIN candidates_store[i]

(* A finished upload with a failed extraction and a stored candidate. *)
C7_Witness ==
    /\ pc = "http_200"
    /\ \E d \in 1..Len(outcome) : outcome[d] = "extraction_failed"
    /\ candidates_store # <<>>

(* C8: a finished upload of N documents has processed all N, has at most N *)
(* candidate records, and as many ranked outputs as documents whose        *)
(* extraction succeeded.                                                   *)
Succeeded == {d \in 1..Len(outcome) : outcome[d] = "ok"}
C8_BatchCounts ==
    (caller = "upload" /\ pc \in {"http_200", "http_400", "http_500"}) =>
        /\ Len(outcome) = nfiles
        /\ Len(parsed_candidates) <= nfiles
        /\ Len(ranked) = Cardinality(Succeeded)

(* C9 as stated: once the embedding of a document has failed, no later     *)
(* document is processed and no ranking is started or produced.            *)
C9_Fatal ==
    \A d \in 1..Len(outcome) :
        outcome[d] = "model_unavailable" =>
            /\ Len(outcome) = d
            /\ rank_status = "none"

(* C9 amended: the step in which the embedding of a document fails adds no *)
(* candidate and goes on with the loop: to the next document, or after the *)
(* last one to the ranking of the candidates collected (HTTP 400 if there  *)
(* are none).                                                              *)
EmbeddingFails ==
    /\ Len(outcome') = Len(outcome) + 1
    /\ outcome'[Len(outcome')] = "model_unavailable"
C9_Local ==
    [][EmbeddingFails =>
          /\ parsed_candidates' = parsed_candidates
          /\ IF idx < nfiles
             THEN pc' = "loop" /\ idx' = idx + 1
             ELSE IF parsed_candidates = <<>>
                  THEN pc' = "http_400"
                  ELSE pc' = "ranking" /\ candidates' = parsed_candidates]_vars

(* The first document's embedding failed and the upload still ranked and   *)
(* stored a later one.                                                     *)
C9_Witness ==
    /\ pc = "http_200"
    /\ outcome[1] = "model_unavailable"
    /\ candidates_store # <<>>

(* C10: retrieve_chunks returns min(top_k, number of chunks) distinct      *)
(* chunk indices, none less similar to the query than a chunk left out,    *)
(* in non-increasing similarity order.                                     *)
C10_TopK ==
    rpc = "returned" =>
        /\ Len(top_idx) = Min(top_k, Len(embeddings))
        /\ Range(top_idx) \subseteq 1..Len(embeddings)
        /\ Cardinality(Range(top_idx)) = Len(top_idx)
        /\ \A i \in Range(top_idx) :
              \A j \in (1..Len(embeddings)) \ Range(top_idx) :
                  SimLE(query_emb, embeddings[j], embeddings[i])
        /\ \A a, b \in 1..Len(top_idx) :
              a < b => SimLE(query_emb, embeddings[top_idx[b]],
                             embeddings[top_idx[a]])

(* Two of three chunks of pairwise different similarity are returned. *)
C10_Witness ==
    /\ rpc = "returned"
    /\ Len(embeddings) = 3
    /\ top_k = 2
    /\ Len(top_idx) = 2
    /\ \A i, j \in 1..3 :
          i # j => ~SimLE(query_emb, embeddings[i], embeddings[j])
                   \/ ~SimLE(query_emb, embeddings[j], embeddings[i])

(* C11: in the result of retrieve_chunks, chunks of equal similarity come  *)
(* in input order, and of two equally similar chunks of which only one is  *)
(* returned, it is the one with the lower index.                           *)
Tied(i, j) ==
    /\ SimLE(query_emb, embeddings[i], embeddings[j])
    /\ SimLE(query_emb, embeddings[j], embeddings[i])
C11_TiesByIndex ==
    rpc = "returned" =>
        /\ \A a, b \in 1..Len(top_idx) :
              (a < b /\ Tied(top_idx[a], top_idx[b]))
                  => top_idx[a] < top_idx[b]
        /\ \A i \in Range(top_idx) :
              \A j \in (1..Len(embeddings)) \ Range(top_idx) :
                  Tied(i, j) => i < j

(* C12: when the JSON span of the text is a valid object but for commas    *)
(* right before a closing brace or bracket, extract_json returns the       *)
(* object the span denotes without those commas; when there is no span or  *)
(* the repaired span does not parse, it raises.                            *)
C12_RepairedObject ==
    extract_pc # "called" =>
        LET span == JsonSpan(ai_text)
            json_str == SpanText(ai_text, span)
        IN  /\ (span.found /\ Loads(json_str, TRUE).ok) =>
                  /\ extract_pc = "returned"
                  /\ extract_value = Loads(json_str, TRUE).val
            /\ (~span.found \/ ~Loads(Cleaned(json_str), FALSE).ok) =>
                  extract_pc = "raised"

(* C17: on every response text the evaluator's JSON recovery succeeds      *)
(* exactly when extract_json does, and yields the same object.             *)
C17_SameRecovery ==
    (extract_pc # "called" /\ evaluator_pc # "called") =>
        /\ evaluator_pc = extract_pc
        /\ evaluator_value = extract_value

(* C13: a call of rank_candidates with an empty sequence has returned the  *)
(* empty list as soon as it is made: no task was created (so no client was *)
(* built and no request sent) and gather was never awaited.               *)
C13_EmptyInput ==
    (caller = "direct" /\ candidates = <<>>) =>
        /\ pc = "direct_done"
        /\ rank_status = "returned"
        /\ ranked = <<>>
        /\ task = <<>>

C13_Witness ==
    /\ caller = "direct"
    /\ candidates = <<>>
    /\ rank_status = "returned"
    /\ ranked = <<>>

(* C14: whatever parse_resume returns is either an error record without    *)
(* preliminary_score, or a record whose preliminary_score is the integer   *)
(* ten times the number of its skills (none when the field is missing),    *)
(* replaced by 100 when that exceeds 100; so it lies in 0..100.            *)
NumberOfSkills(record) ==
    IF "skills" \in DOMAIN record THEN Len(record["skills"].s) ELSE 0

C14_PreliminaryScore ==
    candidate_info # Unbound =>
        IF "error" \in DOMAIN candidate_info
        THEN "preliminary_score" \notin DOMAIN candidate_info
        ELSE /\ "preliminary_score" \in DOMAIN candidate_info
             /\ candidate_info["preliminary_score"].t = "int"
             /\ candidate_info["preliminary_score"].n \in 0..100
             /\ LET linear == 10 * NumberOfSkills(candidate_info)
                IN  candidate_info["preliminary_score"].n =
                        IF linear > 100 THEN 100 ELSE linear

(* an eleven-skill record got 100, after a record without skills got 0 and *)
(* a two-skill record got 20                                                *)
C14_Witness ==
    /\ "error" \notin DOMAIN candidate_info
    /\ NumberOfSkills(candidate_info) = 11
    /\ candidate_info["preliminary_score"] = JInt(100)
    /\ \E i \in 1..Len(parsed_candidates) :
          /\ "skills" \notin DOMAIN parsed_candidates[i]
          /\ parsed_candidates[i]["preliminary_score"] = JInt(0)
    /\ \E i \in 1..Len(parsed_candidates) :
          /\ NumberOfSkills(parsed_candidates[i]) = 2
          /\ parsed_candidates[i]["preliminary_score"] = JInt(20)

(* C15: when a call of rank_candidates is over and the sort itself did not *)
(* fail, a candidate whose evaluation failed (it raised, or it fell back)  *)
(* has cost no other candidate its result: every other candidate whose     *)
(* own evaluation did not raise has its record in the returned list.       *)
EvaluationFailed(i) == task[i] \in {"raised", "fallback"}

C15_FailureIsolated ==
    (Finished /\ ~SortRaises(results)) =>
        \A i, j \in DOMAIN task :
            (i # j /\ EvaluationFailed(i) /\ task[j] # "raised") =>
                /\ task[j] \in TaskDone
                /\ \E k \in 1..Len(ranked) :
                      /\ ranked[k] = results[j]
                      /\ order[k] = j

(* C16: whatever the order in which the evaluations complete, (1) nothing  *)
(* is sorted while gather is awaited, and a returned ranking comes after   *)
(* every one of the N tasks has completed; (2) the record collected at     *)
(* position i is an evaluation of candidate i; (3) the returned list is    *)
(* the stable descending order of those records taken in input order, so   *)
(* it does not depend on the completion order.                             *)
EvaluationsOf(candidate) ==
    {Fallback(candidate)} \cup {Enhanced(candidate, e) : e \in EvalObjs}

C16_CompletionOrderIrrelevant ==
    /\ rank_status = "gathering" => ranked = <<>> /\ order = <<>>
    /\ \A i \in DOMAIN task :
          task[i] \in TaskDone => results[i] \in EvaluationsOf(candidates[i])
    /\ (rank_status = "returned" /\ candidates # <<>>) =>
          /\ \A i \in DOMAIN task : task[i] \in TaskDone
          /\ Range(order) = DOMAIN candidates
          /\ Len(ranked) = Len(candidates)
          /\ \A k \in 1..Len(ranked) :
                /\ ranked[k] = results[order[k]]
                /\ ranked[k] \in EvaluationsOf(candidates[order[k]])
          /\ \A k, l \in 1..Len(ranked) :
                k < l =>
                   \/ SortKey(ranked[k]).n > SortKey(ranked[l]).n
                   \/ /\ SortKey(ranked[k]).n = SortKey(ranked[l]).n
                      /\ order[k] < order[l]

(* three candidates, the third unlike the other two, evaluations that did  *)
(* not complete in the order of dispatch, and the ranking returned         *)
C16_Witness ==
    /\ rank_status = "returned"
    /\ Len(candidates) = 3
    /\ overtaken
    /\ candidates[3] # candidates[1]
    /\ candidates[3] # candidates[2]
    /\ order = <<2, 3, 1>>

====
